---- MODULE Spec2Model ----
(***************************************************************************)
(* Conversation context manager of the chatbot (src/chatbot/model.py):     *)
(* class AIChat keeps the encoded dialogue in chat_history_ids, trims it   *)
(* to a window of max_history_tokens before each generation call, stores   *)
(* the whole generation result and returns the decoded continuation.       *)
(*                                                                         *)
(* A token sequence (a 1 x n tensor in the code) is a TLA+ sequence of     *)
(* token ids.  A text is a sequence of vocabulary pieces.  The tokenizer   *)
(* and the language model are external: the tokenizer is a bijection       *)
(* between pieces and ids that skips the special token on decoding, the    *)
(* model returns its input followed by a continuation it chooses, or       *)
(* raises.                                                                 *)
(***************************************************************************)
EXTENDS Integers, Sequences, FiniteSets, TLC

\* -------------------------------------------------------------- constants

\* self.max_history_tokens = 1024
max_history_tokens == 1024

\* self.chat_history_ids = None: a value no token sequence equals, as no
\* token id is negative.
None == << -1 >>

\* -------------------------------------------------------------- bounds

\* generate_response calls of one conversation
MaxTurns == 2
\* tokens the model adds in one generation call
MaxNew == 1

\* -------------------------------------------------------------- tokenizer

\* The vocabulary: piece i has token id i.  The last piece is the special
\* end-of-sequence token.
Vocab == <<"User", ":", " hello", " there", " friend", "\n", "Assistant", "<|endoftext|>">>

Pieces == { Vocab[i] : i \in 1..Len(Vocab) }

TokenIds == [piece \in Pieces |-> CHOOSE i \in 1..Len(Vocab) : Vocab[i] = piece]

TokenId(piece) == TokenIds[piece]

eos_token_id == TokenId("<|endoftext|>")

\* tokenizer.encode(text, add_special_tokens=True): one id per piece (the
\* GPT-2 tokenizer adds no special token of its own).
Encode(text) == [i \in 1..Len(text) |-> TokenId(text[i])]

\* tokenizer.decode(ids, skip_special_tokens=True)
Decode(ids) ==
    LET kept == SelectSeq(ids, LAMBDA t : t # eos_token_id)
    IN  [i \in 1..Len(kept) |-> Vocab[kept[i]]]

\* formatted_input = f"User: {user_input}\nAssistant:"
Format(user_input) == <<"User", ":">> \o user_input \o <<"\n", "Assistant", ":">>

FormatLen == Len(Format(<<>>))

\* -------------------------------------------------------------- inputs

Words == <<" hello", " there", " friend">>

\* A user message of n words.
Text(n) == [i \in 1..n |-> Words[((i + n) % Len(Words)) + 1]]

\* Encoded length of the shortest message, a single word.
ShortLen == FormatLen + 1

\* Encoded lengths of the messages sent: the shortest; the one that exactly
\* fills the window after a shortest turn with no continuation; exactly
\* max_history_tokens; one more; and max_history_tokens + ShortLen, which
\* exceeds the window by a whole shortest turn.
InputLens ==
    { ShortLen, max_history_tokens - ShortLen, max_history_tokens,
      max_history_tokens + 1, max_history_tokens + ShortLen }

TextLens == { n - FormatLen : n \in InputLens }

UserInputs == { Text(n) : n \in TextLens }

\* What model.generate may add to its input: up to MaxNew tokens, the last
\* of which may be the end-of-sequence token.  The model is external and
\* samples: how many tokens it adds is its choice, whatever the input.
Reply(k) == [i \in 1..k |-> TokenId(Words[(i % Len(Words)) + 1])]

Continuations ==
    { Reply(k) : k \in 0..MaxNew }
    \cup { [Reply(k) EXCEPT ![k] = eos_token_id] : k \in 1..MaxNew }

\* -------------------------------------------------------------- state

VARIABLES
    chat_history_ids,   \* self.chat_history_ids: None or a token sequence
    turns,              \* generate_response calls made so far
    call                \* the last call: its inputs, locals and result

vars == <<chat_history_ids, turns, call>>

NoCall ==
    [op |-> "none", prior |-> None, resets_in_row |-> 0, cleared |-> FALSE,
     prev_ok |-> FALSE, new_tokens |-> <<>>,
     trimmed |-> FALSE, kept |-> <<>>, model_input |-> <<>>,
     generated |-> <<>>, outcome |-> "none", response |-> <<>>]

\* -------------------------------------------------------------- helpers

\* seq[start:] of Python, for any integer start: a negative start counts
\* from the end, and both ends are clamped.
SliceFrom(seq, start) ==
    LET n    == Len(seq)
        from == IF start < 0
                THEN (IF n + start < 0 THEN 0 ELSE n + start)
                ELSE (IF start > n THEN n ELSE start)
    IN  SubSeq(seq, from + 1, n)

\* combined_length > self.max_history_tokens
Overflows(history, inputs) == Len(history) + Len(inputs) > max_history_tokens

\* Faulty variant of TrimHistory: the oldest tokens are kept instead of the newest.
TrimHistoryFront(history, inputs) ==
    IF Len(history) + Len(inputs) > max_history_tokens
    THEN LET history_to_keep == max_history_tokens - Len(inputs)
         IN  SubSeq(history, 1, IF history_to_keep < 0 THEN 0 ELSE history_to_keep)
    ELSE history

\* Faulty variant of TrimHistory: the combined length is kept strictly below the
\* window, so a history that exactly fits loses its oldest token.
TrimHistoryBelow(history, inputs) ==
    IF Len(history) + Len(inputs) >= max_history_tokens
    THEN LET history_to_keep == max_history_tokens - Len(inputs) - 1
         IN  SliceFrom(history, -history_to_keep)
    ELSE history

\* The history after lines 61-65: self.chat_history_ids[:, -history_to_keep:]
\* when the combined length overflows, the history as it is otherwise.
TrimHistory(history, inputs) ==
    IF Overflows(history, inputs)
    THEN LET history_to_keep == max_history_tokens - Len(inputs)
         IN  SliceFrom(history, -history_to_keep)
    ELSE history

\* Faulty variant of Concat: the concatenation is cut to the window from its front.
ConcatClamped(history, inputs) ==
    SliceFrom(history \o inputs, -max_history_tokens)

\* torch.cat([self.chat_history_ids, inputs], dim=-1)
Concat(history, inputs) == history \o inputs

\* Faulty variant of ExtractReply: the reply starts one token early.
ExtractReplyOffByOne(result, inputs) ==
    Decode(SliceFrom(result, Len(inputs) - 1))

\* chat_history_ids[:, inputs.shape[-1]:][0], decoded
ExtractReply(result, inputs) == Decode(SliceFrom(result, Len(inputs)))

\* Faulty variant of StoredHistory: only the last max_history_tokens tokens of the
\* result are stored.
StoredHistoryClamped(result) == SliceFrom(result, -max_history_tokens)

\* self.chat_history_ids = chat_history_ids
StoredHistory(result) == result

\* -------------------------------------------------------------- call record

\* reset_chat calls made in a row up to now: 0, 1, or 2 for two or more.
ResetsInRow == IF call.op = "reset" THEN call.resets_in_row ELSE 0

\* Whether that run of reset_chat calls cleared a stored history.
Cleared == call.op = "reset" /\ call.cleared

\* Whether the last call was a generate_response that returned.
Succeeded == call.op = "respond" /\ call.outcome = "ok"

\* -------------------------------------------------------------- actions

Init ==
    /\ chat_history_ids = None
    /\ turns = 0
    /\ call = NoCall

\* generate_response(user_input) when model.generate returns.
GenerateResponseOk(user_input, continuation) ==
    LET new_tokens == Encode(Format(user_input))
        has_history == chat_history_ids # None
        trimmed == has_history /\ Overflows(chat_history_ids, new_tokens)
        history == IF has_history THEN TrimHistory(chat_history_ids, new_tokens) ELSE <<>>
        inputs == IF has_history THEN Concat(history, new_tokens) ELSE new_tokens
        result == inputs \o continuation
    IN  /\ turns < MaxTurns
        /\ turns' = turns + 1
        /\ chat_history_ids' = StoredHistory(result)
        /\ call' = [op |-> "respond", prior |-> chat_history_ids,
                    resets_in_row |-> ResetsInRow, cleared |-> Cleared,
                    prev_ok |-> Succeeded, new_tokens |-> new_tokens,
                    trimmed |-> trimmed, kept |-> history, model_input |-> inputs,
                    generated |-> continuation, outcome |-> "ok",
                    response |-> ExtractReply(result, inputs)]

\* generate_response(user_input) when model.generate raises: the exception
\* propagates after lines 59-66 have run.
GenerateResponseRaises(user_input) ==
    LET new_tokens == Encode(Format(user_input))
        has_history == chat_history_ids # None
        trimmed == has_history /\ Overflows(chat_history_ids, new_tokens)
        history == IF has_history THEN TrimHistory(chat_history_ids, new_tokens) ELSE <<>>
        inputs == IF has_history THEN Concat(history, new_tokens) ELSE new_tokens
    IN  /\ turns < MaxTurns
        /\ turns' = turns + 1
        /\ chat_history_ids' = IF has_history THEN history ELSE None
        /\ call' = [op |-> "respond", prior |-> chat_history_ids,
                    resets_in_row |-> ResetsInRow, cleared |-> Cleared,
                    prev_ok |-> Succeeded, new_tokens |-> new_tokens,
                    trimmed |-> trimmed, kept |-> history, model_input |-> inputs,
                    generated |-> <<>>, outcome |-> "raised", response |-> <<>>]

\* Faulty variant of ResetChat: the history is left in place.
ResetChatKeeps ==
    /\ call' = [NoCall EXCEPT !.op = "reset", !.prior = chat_history_ids,
                              !.resets_in_row = IF ResetsInRow = 0 THEN 1 ELSE 2,
                              !.cleared = Cleared \/ chat_history_ids # None]
    /\ UNCHANGED <<chat_history_ids, turns>>

\* reset_chat()
ResetChat ==
    /\ chat_history_ids' = None
    /\ call' = [NoCall EXCEPT !.op = "reset", !.prior = chat_history_ids,
                              !.resets_in_row = IF ResetsInRow = 0 THEN 1 ELSE 2,
                              !.cleared = Cleared \/ chat_history_ids # None]
    /\ UNCHANGED turns

Next ==
    \/ \E user_input \in UserInputs, continuation \in Continuations :
           GenerateResponseOk(user_input, continuation)
    \/ \E user_input \in UserInputs : GenerateResponseRaises(user_input)
    \/ ResetChat

Spec == Init /\ [][Next]_vars

\* -------------------------------------------------------------- properties

\* The last k tokens of seq; none when k is zero or negative.
LastTokens(seq, k) ==
    IF k <= 0 THEN <<>>
    ELSE SubSeq(seq, (IF Len(seq) > k THEN Len(seq) - k ELSE 0) + 1, Len(seq))

Responded == call.op = "respond"

HadHistory == Responded /\ call.prior # None

\* Tokens of the prior history that open the stored state of a successful
\* call: what is left of it once the new input and the continuation are
\* taken off its end.
RetainedLen ==
    Len(chat_history_ids) - Len(call.new_tokens) - Len(call.generated)

\* The stored state is a suffix of the prior state, then the new input, then
\* the continuation.
ContinuesPrior ==
    /\ RetainedLen >= 0
    /\ RetainedLen <= Len(call.prior)
    /\ chat_history_ids =
           LastTokens(call.prior, RetainedLen) \o call.new_tokens \o call.generated

\* C1 (window bound): after every generate_response that returns, the stored
\* history has at most max_history_tokens tokens.
C1_WindowBound ==
    Succeeded => Len(chat_history_ids) <= max_history_tokens

\* C2 (failure atomicity): after a generate_response in which model.generate
\* raised, the stored history is the one the call started with.
C2_FailureAtomicity ==
    (Responded /\ call.outcome = "raised") => chat_history_ids = call.prior

\* C3 (recency preservation): whenever generate_response trims, the history
\* kept in the model input is exactly the last
\* max_history_tokens - len(new input) tokens of the prior history, which is
\* no token at all when that count is zero or negative.
C3_RecencyPreservation ==
    (Responded /\ call.trimmed) =>
        call.kept =
            LastTokens(call.prior, max_history_tokens - Len(call.new_tokens))

\* C4 (model-input bound): in every generate_response with prior history, the
\* history kept plus the new input has at most max_history_tokens tokens.
C4_ModelInputBound ==
    HadHistory =>
        Len(call.kept) + Len(call.new_tokens) <= max_history_tokens

\* C5 (reset idempotence): after reset_chat, called once or several times in a
\* row, the stored history is None; the generate_response that follows passes
\* exactly the encoded new input to the model, untrimmed, and stores that
\* input followed by the continuation, as a first turn does.
C5_ResetIdempotence ==
    /\ call.op = "reset" => chat_history_ids = None
    /\ (Responded /\ call.resets_in_row >= 1) =>
           /\ call.prior = None
           /\ ~call.trimmed
           /\ call.model_input = call.new_tokens
           /\ call.outcome = "ok" =>
                  chat_history_ids = call.new_tokens \o call.generated

\* A generate_response that returned right after two or more reset_chat calls
\* in a row that cleared a stored history.
C5_Witness ==
    /\ Succeeded
    /\ call.resets_in_row = 2
    /\ call.cleared

\* C6 (extraction correctness): the reply of a generate_response that returns
\* is the decoding of the result from position len(model input) on, which is
\* the decoding of exactly the tokens the model added.
C6_ExtractionCorrectness ==
    Succeeded =>
        /\ call.response =
               Decode(SubSeq(chat_history_ids, Len(call.model_input) + 1,
                             Len(chat_history_ids)))
        /\ call.response = Decode(call.generated)

\* A trimmed turn that returned a non-empty reply.
C6_Witness ==
    /\ Succeeded
    /\ call.trimmed
    /\ Len(call.kept) > 0
    /\ call.response # <<>>

\* C7 as stated (history continuity): of two generate_response calls in a row
\* that both return, the second stores a non-empty suffix of what the first
\* stored, followed by its new input and continuation.
C7_ContinuityNeverDiscards ==
    (Succeeded /\ call.prev_ok) => (ContinuesPrior /\ RetainedLen >= 1)

\* C7 as amended: the second call stores a suffix of what the first stored,
\* followed by its new input and continuation; the suffix is non-empty
\* whenever the new input has at most max_history_tokens tokens.
C7_Continuity ==
    (Succeeded /\ call.prev_ok) =>
        /\ ContinuesPrior
        /\ Len(call.new_tokens) <= max_history_tokens => RetainedLen >= 1

\* Two calls in a row that returned, the second of which trimmed the first's
\* stored state to a shorter, non-empty suffix.
C7_Witness ==
    /\ Succeeded
    /\ call.prev_ok
    /\ call.trimmed
    /\ RetainedLen >= 1
    /\ RetainedLen < Len(call.prior)

\* C8 (full-result persistence): after a generate_response that returns, the
\* stored history is the model input followed by the tokens the model added;
\* with no prior history nothing is trimmed and the model input is the
\* encoded new input.
C8_FullResultPersistence ==
    Succeeded =>
        /\ chat_history_ids = call.model_input \o call.generated
        /\ call.prior = None =>
               /\ ~call.trimmed
               /\ call.model_input = call.new_tokens
               /\ chat_history_ids = call.new_tokens \o call.generated

\* A first turn whose result is longer than its input, and a later turn whose
\* result is longer than the window.
C8_Witness ==
    /\ Succeeded
    /\ call.generated # <<>>
    /\ \/ call.prior = None
       \/ Len(chat_history_ids) > max_history_tokens

\* C9 (no trimming when the window fits): with prior history and a combined
\* length of at most max_history_tokens, the model input is the whole prior
\* history followed by the new input.
C9_NoTrimWhenFits ==
    (HadHistory /\ Len(call.prior) + Len(call.new_tokens) <= max_history_tokens) =>
        /\ ~call.trimmed
        /\ call.kept = call.prior
        /\ call.model_input = call.prior \o call.new_tokens

\* A turn whose prior history and new input fill the window exactly.
C9_Witness ==
    /\ HadHistory
    /\ Len(call.prior) + Len(call.new_tokens) = max_history_tokens

\* C10 (new input never truncated): the model input of every
\* generate_response ends with the whole encoded new input; what precedes it
\* is a suffix of the prior history.
C10_NewInputVerbatim ==
    Responded =>
        LET n == Len(call.new_tokens)
            m == Len(call.model_input)
        IN  /\ m >= n
            /\ LastTokens(call.model_input, n) = call.new_tokens
            /\ call.prior = None => m = n
            /\ call.prior # None =>
                   /\ m - n <= Len(call.prior)
                   /\ SubSeq(call.model_input, 1, m - n) =
                          LastTokens(call.prior, m - n)

\* A trimming turn whose new input alone is longer than the window.
C10_Witness ==
    /\ HadHistory
    /\ call.trimmed
    /\ Len(call.new_tokens) > max_history_tokens

====
